---------------------------- MODULE Spec2Model ----------------------------
(***************************************************************************)
(* Model of burak-vtk (src/src/main.rs): the conversion of a CSV file of   *)
(* complex vector-field samples into a rectilinear VTK grid.               *)
(*                                                                         *)
(* main() is a straight-line program; the variable pc holds its position.  *)
(* The first pass (determine_spans) scans the rows and collects the        *)
(* distinct coordinates of each axis, the second pass re-opens the file    *)
(* and scatters the rows into (3, nx, ny, nz) arrays by position, then     *)
(* magnitude_complex reduces each real/imaginary pair to a scalar field    *)
(* and vtk::write_vtk receives the result.                                 *)
(*                                                                         *)
(* f64 values are modelled by integers plus the value NaN, which compares  *)
(* unequal to everything (itself included), as IEEE-754 equality does;     *)
(* -0.0 is not told apart from 0.0 and rounding is left out: the square    *)
(* root of a sum of squares is kept exact, as Sqrt(n).                     *)
(*                                                                         *)
(* The file is read twice. The second reader reads what is at the path     *)
(* when main() opens it again, which need not be what the first read.      *)
(***************************************************************************)
EXTENDS Integers, Sequences, FiniteSets, TLC

\* ------------------------------------------------------------------ bounds

\* longest file (in data rows) among the files of arbitrary rows
MaxRows == 2

\* largest grid (in cells) among the files that list the cells of a full grid
MaxCells == 4

\* ------------------------------------------------------------- f64 values

\* the f64 value NaN (csv's f64 deserializer is str::parse, which reads "NaN")
NaN == 99

\* PartialEq for f64: NaN is equal to nothing
FEq(a, b) == a # NaN /\ b # NaN /\ a = b

\* f64::powi(2)
Powi2(a) == a * a

\* f64::sqrt of a sum of squares, kept exact: the non-negative root of n
Sqrt(n) == [radicand |-> n]

\* ------------------------------------------------------------------- rows

\* the twelve field columns of CsvData
FieldNames ==
    {"u1r", "u2r", "u3r", "u1i", "u2i", "u3i",
     "w1r", "w2r", "w3r", "w1i", "w2i", "w3i"}

\* field values of a row: real velocity (1,0,0), imaginary (0,0,0);
\* real and imaginary w (1,1,1)
FieldsA ==
    [u1r |-> 1, u2r |-> 0, u3r |-> 0, u1i |-> 0, u2i |-> 0, u3i |-> 0,
     w1r |-> 1, w2r |-> 1, w3r |-> 1, w1i |-> 1, w2i |-> 1, w3i |-> 1]

\* field values of a row: twelve different values, of both signs
FieldsB ==
    [u1r |-> -1, u2r |-> 2, u3r |-> -3, u1i |-> 4, u2i |-> -5, u3i |-> 6,
     w1r |-> 7, w2r |-> -8, w3r |-> 9, w1i |-> -10, w2i |-> 11, w3i |-> -12]

FieldVals == {FieldsA, FieldsB}

XVals == {1, 2, NaN}
YVals == {1, 2}
ZVals == {1, 2}

\* a row that deserializes into CsvData
MkRow(xv, yv, zv, f) ==
    [ok |-> TRUE, x |-> xv, y |-> yv, z |-> zv,
     u1r |-> f.u1r, u2r |-> f.u2r, u3r |-> f.u3r,
     u1i |-> f.u1i, u2i |-> f.u2i, u3i |-> f.u3i,
     w1r |-> f.w1r, w2r |-> f.w2r, w3r |-> f.w3r,
     w1i |-> f.w1i, w2i |-> f.w2i, w3i |-> f.w3i]

\* a row that does not (a missing or non-numeric field)
BadRow ==
    [ok |-> FALSE, x |-> 0, y |-> 0, z |-> 0,
     u1r |-> 0, u2r |-> 0, u3r |-> 0, u1i |-> 0, u2i |-> 0, u3i |-> 0,
     w1r |-> 0, w2r |-> 0, w3r |-> 0, w1i |-> 0, w2i |-> 0, w3i |-> 0]

GoodRows == {MkRow(xv, yv, zv, f) : xv \in XVals, yv \in YVals, zv \in ZVals, f \in FieldVals}

Rows == GoodRows \cup {BadRow}

\* the twelve field values of a row
FieldsOf(row) == [n \in FieldNames |-> row[n]]

\* ------------------------------------------------------------- input files

SeqsUpTo(S, n) == UNION {[1..m -> S] : m \in 0..n}

\* files of arbitrary rows
AnyFiles == SeqsUpTo(Rows, MaxRows)

\* the non-empty lists of distinct values of S
AxisLists(S) ==
    {s \in SeqsUpTo(S, Cardinality(S)) :
        /\ Len(s) >= 1
        /\ \A a, b \in 1..Len(s) : a # b => s[a] # s[b]}

\* coordinates of the n-th cell (n from 0) of the grid xs x ys x zs in nested
\* order: x outermost, z innermost
CellCoords(xs, ys, zs, n) ==
    << xs[(n \div (Len(ys) * Len(zs))) + 1],
       ys[((n \div Len(zs)) % Len(ys)) + 1],
       zs[(n % Len(zs)) + 1] >>

\* files whose rows are the cells of a full grid, in the order p of the
\* nested traversal (p the identity: in nested order)
GridFile(xs, ys, zs, p, f) ==
    [n \in 1..(Len(xs) * Len(ys) * Len(zs)) |->
        LET c == CellCoords(xs, ys, zs, p[n] - 1)
        IN  MkRow(c[1], c[2], c[3], f[n])]

GridFiles ==
    UNION { LET N == Len(xs) * Len(ys) * Len(zs)
            IN  IF N > MaxCells THEN {}
                ELSE {GridFile(xs, ys, zs, p, f) :
                        p \in Permutations(1..N), f \in [1..N -> FieldVals]}
          : xs \in AxisLists(XVals), ys \in AxisLists(YVals), zs \in AxisLists(ZVals) }

\* the field values A, B, A, ... or B, A, B, ... down the rows
Alternating(first, N) ==
    [n \in 1..N |-> IF (n % 2 = 1) = first THEN FieldsA ELSE FieldsB]

\* files that list a full grid in nested order
NestedFiles ==
    UNION { LET N == Len(xs) * Len(ys) * Len(zs)
            IN  IF N > MaxCells THEN {}
                ELSE {GridFile(xs, ys, zs, [n \in 1..N |-> n], Alternating(b, N)) : b \in BOOLEAN}
          : xs \in AxisLists(XVals), ys \in AxisLists(YVals), zs \in AxisLists(ZVals) }

\* a nested file with its last row missing, or with its first row once more at the end
OffByOneFiles ==
    {SubSeq(g, 1, Len(g) - 1) : g \in NestedFiles} \cup {Append(g, g[1]) : g \in NestedFiles}

\* what a second open of the path may read: the same rows, or, the file
\* having been rewritten meanwhile, the rows with one of them damaged
Rereads(f) == {f} \cup {[f EXCEPT ![n] = BadRow] : n \in 1..Len(f)}

\* ------------------------------------------------------------------ state

VARIABLES
    pc,         \* position of main()
    file,       \* rows read by the first reader (the file, after its header)
    idx,        \* determine_spans: rows taken from the first reader
    x, y, z,    \* determine_spans: the three coordinate lists
    nx, ny, nz, \* spans.x_len(), spans.y_len(), spans.z_len()
    reread,     \* rows read by the second reader
    iter,       \* rows taken from the second reader
    i, j, k,    \* indices of the running loop nest
    real_velocity, imaginary_velocity, real_w, imaginary_w,
    total_velocity_magnitude, total_w_magnitude,
    writes,     \* per cell, how often the second pass stored a row in it
    mag_writes, \* per magnitude array and cell, how often it was stored
    err,        \* the error main() returned, if any
    outfile     \* what is at the output path

vars ==
    << pc, file, idx, x, y, z, nx, ny, nz, reread, iter, i, j, k,
       real_velocity, imaginary_velocity, real_w, imaginary_w,
       total_velocity_magnitude, total_w_magnitude,
       writes, mag_writes, err, outfile >>

arrays ==
    << real_velocity, imaginary_velocity, real_w, imaginary_w,
       total_velocity_magnitude, total_w_magnitude, writes, mag_writes >>

spans == << x, y, z, nx, ny, nz >>

\* index sets of an Array3 of shape (a, b, c) and of an Array4 of shape (3, a, b, c)
Idx3(a, b, c) == (0..(a - 1)) \X (0..(b - 1)) \X (0..(c - 1))
Idx4(a, b, c) == (0..2) \X (0..(a - 1)) \X (0..(b - 1)) \X (0..(c - 1))

\* Array4::zeros((3, a, b, c)) and Array3::zeros((a, b, c))
Zeros4(a, b, c) == [e \in Idx4(a, b, c) |-> 0]
Zeros3(a, b, c) == [e \in Idx3(a, b, c) |-> Sqrt(0)]

NoErr == [kind |-> "none", stage |-> "none", line |-> 0, cell |-> <<0, 0, 0>>]

\* anyhow errors of main(): what failed, in which stage, with the line or cell named
Error(kind, stage, line, cell) ==
    [kind |-> kind, stage |-> stage, line |-> line, cell |-> cell]

Init ==
    /\ pc = "open"
    /\ file \in AnyFiles \cup GridFiles \cup OffByOneFiles
    /\ idx = 0
    /\ x = <<>> /\ y = <<>> /\ z = <<>>
    /\ nx = 0 /\ ny = 0 /\ nz = 0
    /\ reread = <<>>
    /\ iter = 0
    /\ i = 0 /\ j = 0 /\ k = 0
    /\ real_velocity = Zeros4(0, 0, 0)
    /\ imaginary_velocity = Zeros4(0, 0, 0)
    /\ real_w = Zeros4(0, 0, 0)
    /\ imaginary_w = Zeros4(0, 0, 0)
    /\ total_velocity_magnitude = Zeros3(0, 0, 0)
    /\ total_w_magnitude = Zeros3(0, 0, 0)
    /\ writes = [e \in Idx3(0, 0, 0) |-> 0]
    /\ mag_writes = [a \in {"velocity", "w"} |-> [e \in Idx3(0, 0, 0) |-> 0]]
    /\ err = NoErr
    /\ outfile = "absent"

\* `?` / bail!: main() returns the error
Fail(e) ==
    /\ pc' = "failed"
    /\ err' = e

\* ------------------------------------------------------- determine_spans

\* LineNo counting the rows from 1 and forgetting the header line
LineNo_NoHeader(n) == n + 1

\* the line number put in a row's decode error: enumerate() index + 2
LineNo(n) == n + 2

\* Contains looking at the last value pushed only
Contains_Last(list, v) == Len(list) > 0 /\ FEq(list[Len(list)], v)

\* Vec::contains, by f64 equality
Contains(list, v) == \E n \in 1..Len(list) : FEq(list[n], v)

\* if !list.contains(&v) { list.push(v) }
PushNew(list, v) == IF Contains(list, v) THEN list ELSE Append(list, v)

\* std::fs::File::open(&args.csv_path) succeeds
OpenFirst ==
    /\ pc = "open"
    /\ pc' = "spans"
    /\ UNCHANGED << file, idx, spans, reread, iter, i, j, k, arrays, err, outfile >>

\* ... or fails
OpenFirstFail ==
    /\ pc = "open"
    /\ Fail(Error("open", "open", 0, <<0, 0, 0>>))
    /\ UNCHANGED << file, idx, spans, reread, iter, i, j, k, arrays, outfile >>

\* one iteration of the loop over reader.deserialize().enumerate(), the row decoding
SpansRow ==
    /\ pc = "spans"
    /\ idx < Len(file)
    /\ file[idx + 1].ok
    /\ x' = PushNew(x, file[idx + 1].x)
    /\ y' = PushNew(y, file[idx + 1].y)
    /\ z' = PushNew(z, file[idx + 1].z)
    /\ idx' = idx + 1
    /\ UNCHANGED << pc, file, nx, ny, nz, reread, iter, i, j, k, arrays, err, outfile >>

\* the row does not decode: with_context(..)? returns from determine_spans and main
SpansDecodeErr ==
    /\ pc = "spans"
    /\ idx < Len(file)
    /\ ~file[idx + 1].ok
    /\ idx' = idx + 1
    /\ Fail(Error("decode", "spans", LineNo(idx), <<0, 0, 0>>))
    /\ UNCHANGED << file, spans, reread, iter, i, j, k, arrays, outfile >>

\* the reader is exhausted: Spans3D::new(x.len(), y.len(), z.len()), Mesh3D::new(x, y, z)
SpansEnd ==
    /\ pc = "spans"
    /\ idx = Len(file)
    /\ nx' = Len(x)
    /\ ny' = Len(y)
    /\ nz' = Len(z)
    /\ pc' = "reopen"
    /\ UNCHANGED << file, idx, x, y, z, reread, iter, i, j, k, arrays, err, outfile >>

\* ------------------------------------------------------------------ main

\* the file is opened again: the second reader reads what is at the path now
OpenSecond ==
    /\ pc = "reopen"
    /\ reread' \in Rereads(file)
    /\ pc' = "create"
    /\ UNCHANGED << file, idx, spans, iter, i, j, k, arrays, err, outfile >>

OpenSecondFail ==
    /\ pc = "reopen"
    /\ Fail(Error("open", "reopen", 0, <<0, 0, 0>>))
    /\ UNCHANGED << file, idx, spans, reread, iter, i, j, k, arrays, outfile >>

\* File::create(&args.output) succeeds: an empty file is at the output path;
\* then the six arrays are allocated
CreateOutput ==
    /\ pc = "create"
    /\ outfile' = "empty"
    /\ real_velocity' = Zeros4(nx, ny, nz)
    /\ imaginary_velocity' = Zeros4(nx, ny, nz)
    /\ real_w' = Zeros4(nx, ny, nz)
    /\ imaginary_w' = Zeros4(nx, ny, nz)
    /\ total_velocity_magnitude' = Zeros3(nx, ny, nz)
    /\ total_w_magnitude' = Zeros3(nx, ny, nz)
    /\ writes' = [e \in Idx3(nx, ny, nz) |-> 0]
    /\ mag_writes' = [a \in {"velocity", "w"} |-> [e \in Idx3(nx, ny, nz) |-> 0]]
    /\ i' = 0 /\ j' = 0 /\ k' = 0
    /\ pc' = "reshape"
    /\ UNCHANGED << file, idx, spans, reread, iter, err >>

CreateOutputFail ==
    /\ pc = "create"
    /\ Fail(Error("create", "create", 0, <<0, 0, 0>>))
    /\ UNCHANGED << file, idx, spans, reread, iter, i, j, k, arrays, outfile >>

\* InBody for the inclusive ranges 0..=nx, 0..=ny, 0..=nz
InBody_Inclusive == i <= nx /\ j <= ny /\ k <= nz

\* for i in 0..nx { for j in 0..ny { for k in 0..nz { body } } }: the body runs at (i, j, k)
InBody == i < nx /\ j < ny /\ k < nz

\* the nest has run out
LoopDone == ~InBody

\* NextIndex for a nest with the x loop innermost and the z loop outermost
NextIndex_XInner(a, b, c) ==
    IF a + 1 < nx THEN <<a + 1, b, c>>
    ELSE IF b + 1 < ny THEN <<0, b + 1, c>>
    ELSE <<0, 0, c + 1>>

\* the indices of the next run of the body after the one at (a, b, c)
NextIndex(a, b, c) ==
    IF c + 1 < nz THEN <<a, b, c + 1>>
    ELSE IF b + 1 < ny THEN <<a, b + 1, 0>>
    ELSE <<a + 1, 0, 0>>

Advance ==
    /\ i' = NextIndex(i, j, k)[1]
    /\ j' = NextIndex(i, j, k)[2]
    /\ k' = NextIndex(i, j, k)[3]

\* Store3 with the first two components exchanged
Store3_Swapped(arr, a, b, c, v0, v1, v2) ==
    [arr EXCEPT ![<<0, a, b, c>>] = v1, ![<<1, a, b, c>>] = v0, ![<<2, a, b, c>>] = v2]

\* arr[[0, a, b, c]] = v0; arr[[1, a, b, c]] = v1; arr[[2, a, b, c]] = v2
Store3(arr, a, b, c, v0, v1, v2) ==
    [arr EXCEPT ![<<0, a, b, c>>] = v0, ![<<1, a, b, c>>] = v1, ![<<2, a, b, c>>] = v2]

\* the body of the nest: the next row exists and decodes, and is stored at (i, j, k)
ReshapeFill ==
    /\ pc = "reshape"
    /\ InBody
    /\ iter < Len(reread)
    /\ reread[iter + 1].ok
    /\ LET row == reread[iter + 1]
       IN  /\ real_velocity' = Store3(real_velocity, i, j, k, row.u1r, row.u2r, row.u3r)
           /\ imaginary_velocity' = Store3(imaginary_velocity, i, j, k, row.u1i, row.u2i, row.u3i)
           /\ real_w' = Store3(real_w, i, j, k, row.w1r, row.w2r, row.w3r)
           /\ imaginary_w' = Store3(imaginary_w, i, j, k, row.w1i, row.w2i, row.w3i)
    /\ writes' = [writes EXCEPT ![<<i, j, k>>] = @ + 1]
    /\ iter' = iter + 1
    /\ Advance
    /\ UNCHANGED << pc, file, idx, spans, reread, total_velocity_magnitude,
                    total_w_magnitude, mag_writes, err, outfile >>

\* ReshapeShort naming the cell after the missing one
ReshapeShort_NextCell ==
    /\ pc = "reshape"
    /\ InBody
    /\ iter = Len(reread)
    /\ Fail(Error("short", "reshape", 0, NextIndex(i, j, k)))
    /\ UNCHANGED << file, idx, spans, reread, iter, i, j, k, arrays, outfile >>

\* ReshapeShort without its else branch: the cell is left as allocated
ReshapeShort_Skip ==
    /\ pc = "reshape"
    /\ InBody
    /\ iter = Len(reread)
    /\ Advance
    /\ UNCHANGED << pc, file, idx, spans, reread, iter, arrays, err, outfile >>

\* iter.next() is None inside the nest: "CSV was shorter than expected ... ({i},{j},{k})"
ReshapeShort ==
    /\ pc = "reshape"
    /\ InBody
    /\ iter = Len(reread)
    /\ Fail(Error("short", "reshape", 0, <<i, j, k>>))
    /\ UNCHANGED << file, idx, spans, reread, iter, i, j, k, arrays, outfile >>

\* the next row does not decode
ReshapeDecodeErr ==
    /\ pc = "reshape"
    /\ InBody
    /\ iter < Len(reread)
    /\ ~reread[iter + 1].ok
    /\ iter' = iter + 1
    /\ Fail(Error("decode", "reshape", LineNo(iter), <<0, 0, 0>>))
    /\ UNCHANGED << file, idx, spans, reread, i, j, k, arrays, outfile >>

\* after the nest, iter.next() is Some(_): "unread data in csv"
UnreadData ==
    /\ pc = "reshape"
    /\ LoopDone
    /\ iter < Len(reread)
    /\ iter' = iter + 1
    /\ Fail(Error("unread", "reshape", 0, <<0, 0, 0>>))
    /\ UNCHANGED << file, idx, spans, reread, i, j, k, arrays, outfile >>

\* ReshapeDone without the look at the reader
ReshapeDone_NoCheck ==
    /\ pc = "reshape"
    /\ LoopDone
    /\ pc' = "magnitude_velocity"
    /\ i' = 0 /\ j' = 0 /\ k' = 0
    /\ UNCHANGED << file, idx, spans, reread, iter, arrays, err, outfile >>

\* after the nest, iter.next() is None: on to the magnitudes
ReshapeDone ==
    /\ pc = "reshape"
    /\ LoopDone
    /\ iter = Len(reread)
    /\ pc' = "magnitude_velocity"
    /\ i' = 0 /\ j' = 0 /\ k' = 0
    /\ UNCHANGED << file, idx, spans, reread, iter, arrays, err, outfile >>

\* ------------------------------------------------------ magnitude_complex

\* MagnitudeSquared without the imaginary part
MagnitudeSquared_RealOnly(real, im, a, b, c) ==
    LET term(v) == Powi2(real[<<v, a, b, c>>])
    IN  0 + term(0) + term(1) + term(2)

\* magnitude_squared after the loop over v in 0..3
MagnitudeSquared(real, im, a, b, c) ==
    LET term(v) == Powi2(real[<<v, a, b, c>>]) + Powi2(im[<<v, a, b, c>>])
    IN  0 + term(0) + term(1) + term(2)

\* out[[a, b, c]] = magnitude_squared.sqrt()
MagnitudeStore(out, real, im, a, b, c) ==
    [out EXCEPT ![<<a, b, c>>] = Sqrt(MagnitudeSquared(real, im, a, b, c))]

\* one run of the body of magnitude_complex's nest, in either call
MagnitudeCell ==
    /\ pc \in {"magnitude_velocity", "magnitude_w"}
    /\ InBody
    /\ IF pc = "magnitude_velocity"
       THEN /\ total_velocity_magnitude' =
                 MagnitudeStore(total_velocity_magnitude, real_velocity, imaginary_velocity, i, j, k)
            /\ mag_writes' = [mag_writes EXCEPT !["velocity"][<<i, j, k>>] = @ + 1]
            /\ UNCHANGED total_w_magnitude
       ELSE /\ total_w_magnitude' =
                 MagnitudeStore(total_w_magnitude, real_w, imaginary_w, i, j, k)
            /\ mag_writes' = [mag_writes EXCEPT !["w"][<<i, j, k>>] = @ + 1]
            /\ UNCHANGED total_velocity_magnitude
    /\ Advance
    /\ UNCHANGED << pc, file, idx, spans, reread, iter, real_velocity, imaginary_velocity,
                    real_w, imaginary_w, writes, err, outfile >>

\* magnitude_complex returns
MagnitudeReturn ==
    /\ pc \in {"magnitude_velocity", "magnitude_w"}
    /\ LoopDone
    /\ pc' = IF pc = "magnitude_velocity" THEN "magnitude_w" ELSE "write"
    /\ i' = 0 /\ j' = 0 /\ k' = 0
    /\ UNCHANGED << file, idx, spans, reread, iter, arrays, err, outfile >>

\* ---------------------------------------------------------------- output

\* vtk::write_vtk(writer, vtk_write) succeeds
WriteVtk ==
    /\ pc = "write"
    /\ outfile' = "written"
    /\ pc' = "done"
    /\ UNCHANGED << file, idx, spans, reread, iter, i, j, k, arrays, err >>

\* ... or fails part-way
WriteVtkFail ==
    /\ pc = "write"
    /\ outfile' = "partial"
    /\ Fail(Error("write", "write", 0, <<0, 0, 0>>))
    /\ UNCHANGED << file, idx, spans, reread, iter, i, j, k, arrays >>

Next ==
    \/ OpenFirst
    \/ OpenFirstFail
    \/ SpansRow
    \/ SpansDecodeErr
    \/ SpansEnd
    \/ OpenSecond
    \/ OpenSecondFail
    \/ CreateOutput
    \/ CreateOutputFail
    \/ ReshapeFill
    \/ ReshapeShort
    \/ ReshapeDecodeErr
    \/ UnreadData
    \/ ReshapeDone
    \/ MagnitudeCell
    \/ MagnitudeReturn
    \/ WriteVtk
    \/ WriteVtkFail

Spec == Init /\ [][Next]_vars

\* ------------------------------------------------------------ properties

\* number of cells of the discovered grid
NCells == nx * ny * nz

\* position of cell e in nested order, from 0
Lin(e) == e[1] * ny * nz + e[2] * nz + e[3]

AllOk(f) == \A n \in 1..Len(f) : f[n].ok

\* 1-based index of the first malformed row of f
FirstBad(f) == CHOOSE n \in 1..Len(f) : ~f[n].ok /\ \A m \in 1..(n - 1) : f[m].ok

\* determine_spans has returned Ok
Discovered ==
    \/ pc \in {"reopen", "create", "reshape", "magnitude_velocity", "magnitude_w", "write", "done"}
    \/ pc = "failed" /\ err.stage \in {"reopen", "create", "reshape", "write"}

\* the second pass has succeeded: main() has reached the magnitudes
Reshaped ==
    \/ pc \in {"magnitude_velocity", "magnitude_w", "write", "done"}
    \/ pc = "failed" /\ err.stage = "write"

\* the second pass has ended, one way or the other
ReshapeOver == Reshaped \/ (pc = "failed" /\ err.stage = "reshape")

\* the four vector arrays hold the fields of row r at cell e
HoldsRow(e, r) ==
    /\ real_velocity[<<0, e[1], e[2], e[3]>>] = r.u1r
    /\ real_velocity[<<1, e[1], e[2], e[3]>>] = r.u2r
    /\ real_velocity[<<2, e[1], e[2], e[3]>>] = r.u3r
    /\ imaginary_velocity[<<0, e[1], e[2], e[3]>>] = r.u1i
    /\ imaginary_velocity[<<1, e[1], e[2], e[3]>>] = r.u2i
    /\ imaginary_velocity[<<2, e[1], e[2], e[3]>>] = r.u3i
    /\ real_w[<<0, e[1], e[2], e[3]>>] = r.w1r
    /\ real_w[<<1, e[1], e[2], e[3]>>] = r.w2r
    /\ real_w[<<2, e[1], e[2], e[3]>>] = r.w3r
    /\ imaginary_w[<<0, e[1], e[2], e[3]>>] = r.w1i
    /\ imaginary_w[<<1, e[1], e[2], e[3]>>] = r.w2i
    /\ imaginary_w[<<2, e[1], e[2], e[3]>>] = r.w3i

\* C1: when the rows of the second pass are R well-formed rows and R is less
\* than nx*ny*nz, the pass fails with the "CSV was shorter than expected"
\* error, the cell it names is (R div (ny*nz), (R div nz) mod ny, R mod nz),
\* the cells before it in nested order have been stored once and the cells
\* from it on never.
C1_TooFewRows ==
    LET R == Len(reread)
    IN  /\ (ReshapeOver /\ AllOk(reread) /\ R < NCells) =>
              /\ pc = "failed"
              /\ err.kind = "short"
              /\ err.cell = << R \div (ny * nz), (R \div nz) % ny, R % nz >>
              /\ \A e \in Idx3(nx, ny, nz) : writes[e] = (IF Lin(e) < R THEN 1 ELSE 0)
        /\ err.kind = "short" => (AllOk(reread) /\ R < NCells /\ iter = R)

\* C1 happens: a 2 x 2 x 1 grid with its last row missing fails at cell (1, 1, 0)
C1_Witness ==
    /\ pc = "failed"
    /\ err.kind = "short"
    /\ err.cell = <<1, 1, 0>>
    /\ Len(reread) = 3
    /\ AllOk(reread)
    /\ <<nx, ny, nz>> = <<2, 2, 1>>

\* C2: when the rows of the second pass are R well-formed rows and R is more
\* than nx*ny*nz, the run fails with the "unread data in csv" error, raised
\* after every cell has been stored from the first nx*ny*nz rows; the error
\* is never raised when R = nx*ny*nz.
C2_TooManyRows ==
    LET R == Len(reread)
    IN  /\ (ReshapeOver /\ AllOk(reread) /\ R > NCells) =>
              /\ pc = "failed"
              /\ err.kind = "unread"
        /\ err.kind = "unread" =>
              /\ R > NCells
              /\ iter = NCells + 1
              /\ \A e \in Idx3(nx, ny, nz) : writes[e] = 1 /\ HoldsRow(e, reread[Lin(e) + 1])

\* C2 happens: a grid of four cells followed by one more row has failed
C2_Witness ==
    /\ pc = "failed"
    /\ err.kind = "unread"
    /\ AllOk(reread)
    /\ NCells = 4
    /\ Len(reread) = NCells + 1

\* C3: when the second pass succeeds, every cell of the grid has been stored
\* exactly once, and the rows taken from the reader are all the rows of the
\* file, nx*ny*nz of them.
C3_ExactlyOnce ==
    Reshaped =>
        /\ \A e \in Idx3(nx, ny, nz) : writes[e] = 1
        /\ DOMAIN real_velocity = Idx4(nx, ny, nz)
        /\ iter = NCells
        /\ iter = Len(reread)

\* C3 happens: a grid of four cells has been filled
C3_Witness ==
    /\ pc = "magnitude_velocity"
    /\ NCells = 4
    /\ ny = 2

\* the rows of the first pass that decoded
Decoded == IF pc = "failed" /\ err.stage = "spans" THEN idx - 1 ELSE idx

XCol == [n \in 1..Decoded |-> file[n].x]
YCol == [n \in 1..Decoded |-> file[n].y]
ZCol == [n \in 1..Decoded |-> file[n].z]

\* the values of col[1..n] that are f64-equal to no earlier value of col, in order
RECURSIVE FirstSeen(_, _)
FirstSeen(col, n) ==
    IF n = 0 THEN <<>>
    ELSE IF \E m \in 1..(n - 1) : FEq(col[m], col[n])
         THEN FirstSeen(col, n - 1)
         ELSE Append(FirstSeen(col, n - 1), col[n])

Range(s) == {s[n] : n \in 1..Len(s)}

\* list holds each value of col once, ordered by first appearance in col
DistinctInOrder(list, col) ==
    /\ \A a, b \in 1..Len(list) : a # b => list[a] # list[b]
    /\ Range(list) = Range(col)
    /\ Len(list) = Cardinality(Range(col))
    /\ \A a, b \in 1..Len(list) :
          a < b => \E m \in 1..Len(col) :
                      /\ col[m] = list[a]
                      /\ \A q \in 1..m : col[q] # list[b]

\* list holds, in order, the values of col that are f64-equal to no earlier one
DistinctInOrderF64(list, col) ==
    /\ \A a, b \in 1..Len(list) : a # b => ~FEq(list[a], list[b])
    /\ list = FirstSeen(col, Len(col))

\* C4 as claimed: after every prefix of rows, each axis list has no value
\* twice, holds exactly the distinct values of its column, in order of first
\* appearance, and the grid dimensions are the lengths of the lists.
C4_Original ==
    /\ DistinctInOrder(x, XCol)
    /\ DistinctInOrder(y, YCol)
    /\ DistinctInOrder(z, ZCol)
    /\ Discovered => (nx = Len(x) /\ ny = Len(y) /\ nz = Len(z))

\* C4 as amended: after every prefix of rows, no two values of an axis list
\* are equal as f64 (so a NaN coordinate, equal to nothing, is listed at each
\* of its occurrences), the list is the values of its column that are
\* f64-equal to no earlier value of the column, in file order, and the grid
\* dimensions are the lengths of the lists.
C4_FirstSeen ==
    /\ DistinctInOrderF64(x, XCol)
    /\ DistinctInOrderF64(y, YCol)
    /\ DistinctInOrderF64(z, ZCol)
    /\ Discovered => (nx = Len(x) /\ ny = Len(y) /\ nz = Len(z))

\* C4 happens: x-values 2, 1, 2, 1 have given the list 2, 1
C4_Witness ==
    /\ Discovered
    /\ XCol = <<2, 1, 2, 1>>
    /\ x = <<2, 1>>
    /\ nx = 2

XLists == AxisLists(XVals)
YLists == AxisLists(YVals)
ZLists == AxisLists(ZVals)

\* f lists the cells of a full grid of distinct coordinates in nested order
IsNested(f) ==
    /\ AllOk(f)
    /\ \E xs \in XLists, ys \in YLists, zs \in ZLists :
          /\ Len(f) = Len(xs) * Len(ys) * Len(zs)
          /\ \A n \in 1..Len(f) :
                <<f[n].x, f[n].y, f[n].z>> = CellCoords(xs, ys, zs, n - 1)

NoNaN(f) == \A n \in 1..Len(f) : f[n].x # NaN /\ f[n].y # NaN /\ f[n].z # NaN

\* every cell (a, b, c) holds the fields of the one row at (x[a], y[b], z[c])
CellsMatchCoords ==
    \A e \in Idx3(nx, ny, nz) :
        \E n \in 1..Len(file) :
            /\ <<file[n].x, file[n].y, file[n].z>> = <<x[e[1] + 1], y[e[2] + 1], z[e[3] + 1]>>
            /\ \A m \in 1..Len(file) :
                  <<file[m].x, file[m].y, file[m].z>> = <<file[n].x, file[n].y, file[n].z>> => m = n
            /\ HoldsRow(e, file[n])

\* C5 as claimed: for a file that lists a full grid of distinct coordinate
\* values in nested order, the second pass succeeds and every cell (i, j, k)
\* holds the fields of the row whose coordinates are (xs[i], ys[j], zs[k]).
C5_Original ==
    (ReshapeOver /\ reread = file /\ IsNested(file)) =>
        /\ Reshaped
        /\ Cardinality(Idx3(nx, ny, nz)) = Len(file)
        /\ CellsMatchCoords

\* C5 as amended: the same, for grids none of whose coordinate values is NaN.
C5_GridConsistent ==
    (ReshapeOver /\ reread = file /\ NoNaN(file) /\ IsNested(file)) =>
        /\ Reshaped
        /\ Cardinality(Idx3(nx, ny, nz)) = Len(file)
        /\ CellsMatchCoords

\* C5 happens: a 2 x 2 grid whose x-values first appear as 2, 1 is written out
C5_Witness ==
    /\ pc = "done"
    /\ reread = file
    /\ Len(file) = 4
    /\ x = <<2, 1>>
    /\ NoNaN(file)
    /\ IsNested(file)
    /\ FieldsOf(file[1]) # FieldsOf(file[2])

\* C6: after an open failure, a decode failure in either pass, the too-few
\* or the too-many error, main() takes no further step and nothing is at the
\* output path.
C6_NoOutputOnFailure ==
    (pc = "failed" /\ err.kind \in {"open", "decode", "short", "unread"}) =>
        /\ ~ENABLED Next
        /\ outfile = "absent"

\* C7: when the first malformed row is the r-th data row, the run fails in
\* the first pass with a decode error naming line r + 1 and no later row is
\* taken; a decode error of the second pass names its row the same way.
C7_LineNumber ==
    /\ (~AllOk(file) /\ pc \notin {"open", "spans"} /\ err.stage # "open") =>
          /\ pc = "failed"
          /\ err.kind = "decode"
          /\ err.stage = "spans"
          /\ err.line = FirstBad(file) + 1
          /\ idx = FirstBad(file)
    /\ (err.kind = "decode" /\ err.stage = "reshape") =>
          /\ ~AllOk(reread)
          /\ err.line = FirstBad(reread) + 1
          /\ iter = FirstBad(reread)

\* C7 happens: the second data row is malformed, the error names line 3
C7_Witness ==
    /\ pc = "failed"
    /\ err.kind = "decode"
    /\ err.stage = "spans"
    /\ Len(file) = 2
    /\ file[1].ok
    /\ err.line = 3

\* C8: for a file without data rows the dimensions are (0, 0, 0) and the
\* lists empty, the second pass takes no row and raises no error, and the
\* arrays are empty; for a file of well-formed rows, at least one, nx, ny
\* and nz are at least 1 once discovery has completed.
C8_EmptyInput ==
    /\ (Len(file) = 0 /\ Discovered) =>
          /\ nx = 0 /\ ny = 0 /\ nz = 0
          /\ x = <<>> /\ y = <<>> /\ z = <<>>
          /\ err.kind \notin {"short", "unread", "decode"}
          /\ iter = 0
          /\ pc \notin {"reopen", "create", "failed"} =>
                /\ DOMAIN real_velocity = {} /\ DOMAIN imaginary_velocity = {}
                /\ DOMAIN real_w = {} /\ DOMAIN imaginary_w = {}
                /\ DOMAIN total_velocity_magnitude = {} /\ DOMAIN total_w_magnitude = {}
    /\ (Len(file) >= 1 /\ Discovered) => (nx >= 1 /\ ny >= 1 /\ nz >= 1)

\* C8 happens: the conversion of a file without data rows has completed
C8_Witness ==
    /\ Len(file) = 0
    /\ pc = "done"
    /\ outfile = "written"

\* sum of the squares of the six components at cell e
SumSquares(real, im, e) ==
    LET comps == {<<"re", v>> : v \in 0..2} \cup {<<"im", v>> : v \in 0..2}
        val(q) == IF q[1] = "re" THEN real[<<q[2], e[1], e[2], e[3]>>]
                  ELSE im[<<q[2], e[1], e[2], e[3]>>]
        RECURSIVE Sum(_)
        Sum(S) == IF S = {} THEN 0
                  ELSE LET q == CHOOSE q \in S : TRUE
                       IN  val(q) * val(q) + Sum(S \ {q})
    IN  Sum(comps)

\* magnitude_complex has returned from the call for this field
Reduced(field) ==
    IF field = "velocity"
    THEN pc \in {"magnitude_w", "write", "done"} \/ (pc = "failed" /\ err.stage = "write")
    ELSE pc \in {"write", "done"} \/ (pc = "failed" /\ err.stage = "write")

\* C9: every cell of a magnitude array is stored once, with the non-negative
\* root of the sum of the squares of the six components at that cell, and
\* the real and imaginary arrays stay as the second pass left them.
C9_Magnitude ==
    /\ \A e \in Idx3(nx, ny, nz) :
          /\ Reshaped => HoldsRow(e, reread[Lin(e) + 1])
          /\ (Reshaped /\ mag_writes["velocity"][e] > 0) =>
                total_velocity_magnitude[e].radicand = SumSquares(real_velocity, imaginary_velocity, e)
          /\ (Reshaped /\ mag_writes["w"][e] > 0) =>
                total_w_magnitude[e].radicand = SumSquares(real_w, imaginary_w, e)
          /\ Reduced("velocity") => mag_writes["velocity"][e] = 1
          /\ Reduced("w") => mag_writes["w"][e] = 1
    /\ Reduced("velocity") => DOMAIN total_velocity_magnitude = Idx3(nx, ny, nz)
    /\ Reduced("w") => DOMAIN total_w_magnitude = Idx3(nx, ny, nz)

\* C9 happens: real (1,0,0), imaginary (0,0,0) has given 1, and real (1,1,1),
\* imaginary (1,1,1) the root of 6
C9_Witness ==
    /\ pc = "done"
    /\ NCells = 2
    /\ FieldsOf(reread[1]) = FieldsA
    /\ FieldsOf(reread[2]) = FieldsB
    /\ total_velocity_magnitude[<<0, 0, 0>>] = Sqrt(1)
    /\ total_w_magnitude[<<0, 0, 0>>] = Sqrt(6)

\* C10: the n-th row taken by the second pass (n from 0) is stored at the
\* cell (i, j, k) with n = i*ny*nz + j*nz + k, whatever its coordinates, and
\* any nx*ny*nz well-formed rows make the pass succeed.
C10_Positional ==
    /\ pc = "reshape" => iter = (IF InBody THEN Lin(<<i, j, k>>) ELSE NCells)
    /\ (pc = "reshape" \/ ReshapeOver) =>
          \A e \in Idx3(nx, ny, nz) :
              /\ Lin(e) \in 0..(NCells - 1)
              /\ (Lin(e) < iter /\ Lin(e) < Len(reread) /\ reread[Lin(e) + 1].ok) =>
                    (writes[e] = 1 /\ HoldsRow(e, reread[Lin(e) + 1]))
    /\ (ReshapeOver /\ AllOk(reread) /\ Len(reread) = NCells) => Reshaped

\* C10 happens: a file that lists a 2 x 2 grid out of nested order is converted
C10_Witness ==
    /\ pc = "done"
    /\ Len(file) = 4
    /\ NoNaN(file)
    /\ reread = file
    /\ ~IsNested(file)
    /\ \E n \in 0..3 : FieldsOf(file[n + 1]) # FieldsOf(file[((n + 1) % 4) + 1])

=============================================================================
